---- MODULE Spec2Model ----
(***************************************************************************)
(* Model of app.py, the Streamlit BMI calculator with Gemini tips.         *)
(*                                                                         *)
(* Numbers.  peso_kg is held in tenths of a kilogram and altura_m in       *)
(* centimetres (the units of the two number_input steps).  A Python float  *)
(* holding a BMI is the pair (u, off): u is the value in units of 0.00001  *)
(* and off in {-1, 0, 1} tells on which side of that decimal the float     *)
(* lies (off = 0: it is the float of the decimal literal itself).  Every   *)
(* literal of classify_bmi is such a decimal, so the comparisons of the    *)
(* code are decided exactly by the lexicographic order on (u, off).        *)
(*                                                                         *)
(* Text.  A Python string is a tuple of pieces, so that an f-string is     *)
(* the tuple of its literal parts and its interpolated values.             *)
(***************************************************************************)
EXTENDS Integers, Sequences, FiniteSets, TLC

VARIABLES
    API_KEY,         \* module global read from the environment at start-up
    peso_kg,         \* value of the weight widget, in tenths of a kg
    altura_m,        \* value of the height widget, in centimetres
    pc,              \* position of the run the state belongs to
    imc,             \* the BMI of the run (argument of classify_bmi)
    classification,  \* the label of the run (argument of generate_tips)
    outcome,         \* what the HTTP exchange of the run produced
    ret,             \* what generate_tips returned in the run
    http,            \* the requests.post calls issued in the run
    page,            \* the elements the button block rendered in the run
    calls            \* which functions the run called

vars == <<API_KEY, peso_kg, altura_m, pc, imc, classification, outcome,
          ret, http, page, calls>>

---------------------------------------------------------------------------
(* Bounds of the model.                                                    *)

\* largest BMI (whole units) handed to classify_bmi on its own
MaxBmi == 45
\* longest groundingAttributions array in a response to generate_tips
MaxAttr == 2
\* longest groundingAttributions array in a response to a button press
MaxPageAttr == 1

---------------------------------------------------------------------------
(* Python values.                                                          *)

None == [py |-> "None"]
Float(u, off) == [py |-> "float", u |-> u, off |-> off]
\* the float of the decimal literal u * 0.00001
Lit(u) == Float(u, 0)
Str(text) == [py |-> "str", v |-> text]
Tuple(a, b) == [py |-> "tuple", v |-> <<a, b>>]

\* a < b and a <= b on floats
Lt(a, b) == a.u < b.u \/ (a.u = b.u /\ a.off < b.off)
Le(a, b) == a.u < b.u \/ (a.u = b.u /\ a.off <= b.off)

EmptyDict == <<>>
\* dict.get(key, default)
Get(d, key, default) == IF key \in DOMAIN d THEN d[key] ELSE default
\* dict.get(key), whose default is None, under a truth test: a missing key
\* and an empty value are both falsy
Truthy(d, key, empty) == key \in DOMAIN d /\ d[key] # empty

---------------------------------------------------------------------------
(* classify_bmi                                                            *)

MAGREZA == "Magreza"
NORMAL == "Normal (Peso Saudável)"
SOBREPESO == "Sobrepeso"
OBESIDADE_I == "Obesidade Grau I"
OBESIDADE_II == "Obesidade Grau II (Severa)"
OBESIDADE_III == "Obesidade Grau III (Mórbida)"
Unset == "<unset>"

Labels == {MAGREZA, NORMAL, SOBREPESO, OBESIDADE_I, OBESIDADE_II,
           OBESIDADE_III}

\* classify_bmi with the first test written bmi <= 18.5
classify_bmi_le(b) ==
    IF Le(b, Lit(1850000)) THEN MAGREZA
    ELSE IF Le(Lit(1850000), b) /\ Lt(b, Lit(2490000)) THEN NORMAL
    ELSE IF Le(Lit(2500000), b) /\ Lt(b, Lit(2990000)) THEN SOBREPESO
    ELSE IF Le(Lit(3000000), b) /\ Lt(b, Lit(3490000)) THEN OBESIDADE_I
    ELSE IF Le(Lit(3500000), b) /\ Lt(b, Lit(3990000)) THEN OBESIDADE_II
    ELSE OBESIDADE_III

classify_bmi(b) ==
    IF Lt(b, Lit(1850000)) THEN MAGREZA
    ELSE IF Le(Lit(1850000), b) /\ Lt(b, Lit(2490000)) THEN NORMAL
    ELSE IF Le(Lit(2500000), b) /\ Lt(b, Lit(2990000)) THEN SOBREPESO
    ELSE IF Le(Lit(3000000), b) /\ Lt(b, Lit(3490000)) THEN OBESIDADE_I
    ELSE IF Le(Lit(3500000), b) /\ Lt(b, Lit(3990000)) THEN OBESIDADE_II
    ELSE OBESIDADE_III

---------------------------------------------------------------------------
(* The HTTP exchange: what requests.post, raise_for_status and             *)
(* response.json() can produce.  A JSON object is a record whose domain is *)
(* the set of keys present, a JSON array a sequence, the text of a part a  *)
(* one-piece string.                                                       *)

API_URL == "https://generativelanguage.googleapis.com/v1beta/models/gemini-2.5-flash-preview-09-2025:generateContent"

\* exceptions derived from requests.exceptions.RequestException: Timeout;
\* ConnectionError (DNS failure, connection refused); HTTPError (raised by
\* raise_for_status on a non-2xx status); JSONDecodeError (what
\* response.json() raises on a body that is not JSON in requests >= 2.27)
RequestExceptions == {"Timeout", "ConnectionError", "HTTPError",
                      "JSONDecodeError"}
\* the network-level failures among them
NetworkFailures == {"Timeout", "ConnectionError", "HTTPError"}
\* what response.json() raises on such a body in older requests
OtherExceptions == {"ValueError"}

\* one entry of groundingAttributions
Attributions ==
    { EmptyDict,
      [web |-> EmptyDict],
      [web |-> [title |-> "T1"]],
      [web |-> [title |-> "T1", uri |-> ""]],
      [web |-> [title |-> "T1", uri |-> "U1"]],
      [web |-> [uri |-> "U2"]] }

RECURSIVE SeqsUpTo(_, _)
SeqsUpTo(S, n) ==
    IF n = 0 THEN { <<>> }
    ELSE LET shorter == SeqsUpTo(S, n - 1)
         IN  shorter \cup { Append(s, x) : s \in shorter, x \in S }

\* the groundingMetadata objects with at most n attributions
Groundings(n) ==
    { EmptyDict } \cup
    { [groundingAttributions |-> a] : a \in SeqsUpTo(Attributions, n) }

Contents ==
    { EmptyDict,
      [parts |-> <<>>],
      [parts |-> <<EmptyDict>>],
      [parts |-> << [text |-> <<"tip">>] >>] }

Candidates(n) ==
    { EmptyDict } \cup
    { [content |-> c] : c \in Contents } \cup
    { [groundingMetadata |-> g] : g \in Groundings(n) } \cup
    { [content |-> c, groundingMetadata |-> g] :
          c \in Contents, g \in Groundings(n) }

\* the bodies response.json() can return
Results(n) ==
    { EmptyDict, [candidates |-> <<>>] } \cup
    { [candidates |-> <<c>>] : c \in Candidates(n) }

NoExchange == [kind |-> "none"]

OutcomesUpTo(n) ==
    { [kind |-> k] : k \in RequestExceptions \cup OtherExceptions } \cup
    { [kind |-> "ok", json |-> r] : r \in Results(n) }

\* what an exchange can produce when generate_tips is called on its own
Outcomes == OutcomesUpTo(MaxAttr)

\* what an exchange can produce in a run of the page
PageOutcomes == OutcomesUpTo(MaxPageAttr)

---------------------------------------------------------------------------
(* generate_tips                                                           *)

MSG_NO_KEY == "Erro: A chave da API Gemini não foi configurada. Por favor, configure a variável de ambiente ou secret 'GEMINI_API_KEY'."
\* (the leading emoji of the source string is left out)
MSG_INFO == "Gerando dicas de bem-estar personalizadas com Gemini..."
MSG_FALLBACK == "Não foi possível gerar as dicas."
MSG_CONNECTION == "Erro de conexão com a API Gemini: "
MSG_PROCESSING == "Ocorreu um erro ao processar a resposta da API: "
INDEX_ERROR == "list index out of range"
SYSTEM_PROMPT == "Aja como um nutricionista e coach de bem-estar. Forneça dicas saudáveis, práticas e motivadoras, baseadas em informações recentes, para a classificação de IMC fornecida. O texto deve ser conciso e amigável, em um único parágrafo."

\* st.info, st.markdown, st.header, st.subheader, st.error
Element(kind, body) == [el |-> kind, body |-> body]

user_query(label) ==
    << "Gere dicas saudáveis e motivadoras para uma pessoa com a seguinte classificação de IMC: '",
       label,
       "'. Foque em passos pequenos, alcançáveis e sustentáveis. Responda integralmente em português." >>

payload(label) ==
    [ contents |-> << [parts |-> << [text |-> user_query(label)] >>] >>,
      tools |-> << [google_search |-> EmptyDict] >>,
      systemInstruction |-> [parts |-> << [text |-> <<SYSTEM_PROMPT>>] >>] ]

\* the requests.post call of line 60
Post(label, key) ==
    [ url |-> <<API_URL, "?key=", key>>,
      headers |-> [ContentType |-> "application/json"],
      data |-> payload(label) ]

\* the filter of the list comprehension
HasUri(attr) == Truthy(attr, "web", EmptyDict) /\ Truthy(attr.web, "uri", "")

\* the list comprehension of lines 73-77
Sources(attrs) ==
    LET kept == SelectSeq(attrs, HasUri)
    IN  [ i \in 1..Len(kept) |->
            << "[", Get(kept[i].web, "title", "None"), "](",
               kept[i].web.uri, ")" >> ]

\* lines 63-79: the body of the try block once the response has parsed
ParseResult(result) ==
    LET candidates == Get(result, "candidates", <<EmptyDict>>)
    IN  IF Len(candidates) = 0
        THEN Tuple(<<MSG_PROCESSING, INDEX_ERROR>>, <<>>)
        ELSE
    LET candidate == candidates[1]
        parts == Get(Get(candidate, "content", EmptyDict), "parts",
                     <<EmptyDict>>)
    IN  IF Len(parts) = 0
        THEN Tuple(<<MSG_PROCESSING, INDEX_ERROR>>, <<>>)
        ELSE
    LET text == Get(parts[1], "text", <<MSG_FALLBACK>>)
        sources ==
            IF /\ Truthy(candidate, "groundingMetadata", EmptyDict)
               /\ Truthy(candidate.groundingMetadata,
                         "groundingAttributions", <<>>)
            THEN Sources(candidate.groundingMetadata.groundingAttributions)
            ELSE <<>>
    IN  Tuple(text, sources)

\* the try block with `except Exception` as its only handler
Exchange_generic(out) ==
    IF out.kind \in RequestExceptions \cup OtherExceptions
    THEN Tuple(<<MSG_PROCESSING, out.kind>>, <<>>)
    ELSE ParseResult(out.json)

\* lines 59-84: the try block and its two handlers
Exchange(out) ==
    IF out.kind \in RequestExceptions
    THEN Tuple(<<MSG_CONNECTION, out.kind>>, <<>>)
    ELSE IF out.kind \in OtherExceptions
    THEN Tuple(<<MSG_PROCESSING, out.kind>>, <<>>)
    ELSE ParseResult(out.json)

\* generate_tips posting a second time when the first exchange fails
generate_tips_retry(label, key, out) ==
    IF key = ""
    THEN [ ret |-> Str(<<MSG_NO_KEY>>), http |-> <<>>, page |-> <<>> ]
    ELSE [ ret |-> Exchange(out),
           http |-> IF out.kind = "ok" THEN << Post(label, key) >>
                    ELSE << Post(label, key), Post(label, key) >>,
           page |-> << Element("info", <<MSG_INFO>>) >> ]

\* What a call does: the value it returns, the requests it issues, the
\* elements it renders.  out is what the exchange produces if it happens.
generate_tips(label, key, out) ==
    IF key = ""
    THEN [ ret |-> Str(<<MSG_NO_KEY>>), http |-> <<>>, page |-> <<>> ]
    ELSE [ ret |-> Exchange(out),
           http |-> << Post(label, key) >>,
           page |-> << Element("info", <<MSG_INFO>>) >> ]

---------------------------------------------------------------------------
(* The button block, lines 123-158                                         *)

MSG_INVALID == "Por favor, insira valores válidos para peso e altura."
MSG_CALC == "Ocorreu um erro no cálculo: "
UNPACK_ERROR == "too many values to unpack (expected 2)"
ZERO_DIVISION == "float division by zero"

\* line 126 with `or` in place of `and`
ValidInput_or(peso, altura) == altura > 0 \/ peso > 0

\* line 126
ValidInput(peso, altura) == altura > 0 /\ peso > 0

\* peso / altura, the square forgotten: (peso/10) / (altura/100) in units
\* of 0.00001 is peso * 1000000 / altura
Division_nosquare(peso, altura) ==
    LET n == peso * 10
        q0 == n \div altura
        r0 == n % altura
        a == (r0 * 100000) \div altura
        r1 == (r0 * 100000) % altura
    IN  [ u |-> q0 * 100000 + a, exact |-> r1 = 0 ]

\* line 128, peso_kg / (altura_m ** 2) for altura # 0, by long division:
\* (peso/10) / (altura/100)^2 = peso * 1000 / altura^2, carried to five
\* decimals and truncated; exact tells whether nothing was cut off
Division(peso, altura) ==
    LET n == peso * 1000
        d == altura * altura
        q0 == n \div d
        r0 == n % d
        a == (r0 * 1000) \div d
        r1 == (r0 * 1000) % d
        b == (r1 * 100) \div d
        r2 == (r1 * 100) % d
    IN  [ u |-> q0 * 100000 + a * 100 + b, exact |-> r2 = 0 ]

\* On which side of the decimal Division(..).u the float quotient lies.  A
\* quotient with further decimals lies above it.  With altura_m in
\* {0.5, 1.0, 2.0} the square is a power of two and the quotient is the
\* float of the decimal.  Otherwise altura_m ** 2 and the division are each
\* rounded, and the quotient of an exact decimal may come out one ulp to
\* either side (120.0 / 1.6 ** 2 is 46.87499999999999): the model leaves
\* the side open.
Roundings(peso, altura) ==
    IF altura = 0 THEN {0}
    ELSE IF ~Division(peso, altura).exact THEN {1}
    ELSE IF altura \in {50, 100, 200} THEN {0}
    ELSE {-1, 0, 1}

\* line 135, f"{imc:.2f}", as the number of hundredths: the float is
\* rounded to the nearest hundredth; when its decimal ends in exactly 5
\* thousandths the binary value decides, and half tells whether it goes up
Format2(b, half) ==
    LET q == b.u \div 1000
        r == b.u % 1000
    IN  IF r > 500 \/ (r = 500 /\ b.off = 1) THEN q + 1
        ELSE IF r < 500 \/ (r = 500 /\ b.off = -1) THEN q
        ELSE IF half THEN q + 1 ELSE q

\* the ties of Format2
Halves(peso, altura, off) ==
    IF altura # 0 /\ Division(peso, altura).u % 1000 = 500 /\ off = 0
    THEN BOOLEAN ELSE {FALSE}

NoCalls == [imc |-> 0, classify_bmi |-> 0, generate_tips |-> 0]

\* the state of a run that did nothing but render the static page
Blank ==
    [ imc |-> None, classification |-> Unset, ret |-> None, http |-> <<>>,
      page |-> <<>>, calls |-> NoCalls ]

\* lines 146-150
SourceList(sources) ==
    IF sources = <<>> THEN <<>>
    ELSE << Element("markdown", <<"---">>),
            Element("subheader", <<"Fontes de Informação (Google Search)">>) >>
         \o [ i \in 1..Len(sources) |->
                Element("markdown", <<"* ">> \o sources[i]) ]

\* lines 126-158: what a run with the button pressed does
ButtonHandler(peso, altura, key, out, off, half) ==
    IF ~ValidInput(peso, altura)
    THEN [ Blank EXCEPT !.page = << Element("error", <<MSG_INVALID>>) >> ]
    ELSE IF altura = 0
    THEN \* ZeroDivisionError, caught on line 154
         [ Blank EXCEPT
             !.calls = [NoCalls EXCEPT !.imc = 1],
             !.page = << Element("error", <<MSG_CALC, ZERO_DIVISION>>) >> ]
    ELSE
    LET bmi == Float(Division(peso, altura).u, off)
        label == classify_bmi(bmi)
        shown == << Element("markdown", <<"---">>),
                    Element("header", <<"Seu Resultado de IMC">>),
                    Element("metric", <<"Seu IMC",
                                        ToString(Format2(bmi, half)),
                                        label>>),
                    Element("subheader",
                            <<"Classificação: **", label, "**">>),
                    Element("markdown",
                            <<"### Dicas Saudáveis do Gemini">>) >>
        tips == generate_tips(label, key, out)
        \* line 141: only a 2-tuple unpacks; a str of another length raises
        \* ValueError, caught on line 154 like any exception of the call
        rest == IF tips.ret.py = "tuple"
                THEN << Element("markdown", tips.ret.v[1]) >>
                     \o SourceList(tips.ret.v[2])
                ELSE << Element("error", <<MSG_CALC, UNPACK_ERROR>>) >>
    IN  [ imc |-> bmi,
          classification |-> label,
          ret |-> tips.ret,
          http |-> tips.http,
          page |-> shown \o tips.page \o rest,
          calls |-> [imc |-> 1, classify_bmi |-> 1, generate_tips |-> 1] ]

---------------------------------------------------------------------------
(* The page: every interaction reruns the script from the top.             *)

\* GEMINI_API_KEY unset, or set
Keys == {"", "AIza-key"}

\* values the weight widget delivers (tenths of a kg).  min_value and
\* max_value are applied by the widget's front end; the script itself
\* tests only the sign, on line 126.
PesoValues == {-10, 0, 185, 299, 700, 1200}

\* values the height widget delivers (centimetres)
AlturaValues == {-100, 0, 100, 160, 175}

\* the declared range and step of the two number inputs
InRange(peso, altura) ==
    /\ 10 <= peso /\ peso <= 3000
    /\ 50 <= altura /\ altura <= 300

Init ==
    /\ API_KEY \in Keys
    /\ peso_kg = 700
    /\ altura_m = 175
    /\ pc = "idle"
    /\ outcome = NoExchange
    /\ imc = Blank.imc
    /\ classification = Blank.classification
    /\ ret = Blank.ret
    /\ http = Blank.http
    /\ page = Blank.page
    /\ calls = Blank.calls

\* a run in which the button is not pressed: the block is skipped
Rerun ==
    /\ pc' = "idle"
    /\ outcome' = NoExchange
    /\ imc' = Blank.imc
    /\ classification' = Blank.classification
    /\ ret' = Blank.ret
    /\ http' = Blank.http
    /\ page' = Blank.page
    /\ calls' = Blank.calls

\* the user changes the weight
SetPeso ==
    /\ pc \in {"idle", "pressed"}
    /\ \E w \in PesoValues \ {peso_kg} : peso_kg' = w
    /\ Rerun
    /\ UNCHANGED <<API_KEY, altura_m>>

\* the user changes the height
SetAltura ==
    /\ pc \in {"idle", "pressed"}
    /\ \E h \in AlturaValues \ {altura_m} : altura_m' = h
    /\ Rerun
    /\ UNCHANGED <<API_KEY, peso_kg>>

\* a run with the button pressed, the exchange producing one of outs
PressWith(outs) ==
    /\ \E out \in outs :
       \E off \in Roundings(peso_kg, altura_m) :
       \E half \in Halves(peso_kg, altura_m, off) :
       \E run \in {ButtonHandler(peso_kg, altura_m, API_KEY, out, off, half)} :
             /\ pc' = "pressed"
             /\ outcome' = IF run.http = <<>> THEN NoExchange ELSE out
             /\ imc' = run.imc
             /\ classification' = run.classification
             /\ ret' = run.ret
             /\ http' = run.http
             /\ page' = run.page
             /\ calls' = run.calls
    /\ UNCHANGED <<API_KEY, peso_kg, altura_m>>

\* the user presses the button
Press ==
    /\ pc \in {"idle", "pressed"}
    /\ PressWith(PageOutcomes)

Next == SetPeso \/ SetAltura \/ Press

Spec == Init /\ [][Next]_vars

---------------------------------------------------------------------------
(* The form over the whole range of its two fields: the page is loaded     *)
(* with any weight from 1.0 to 300.0 kg and any height from 0.50 to 3.00 m *)
(* entered, the button is pressed once and the service does not answer.    *)

InitForm ==
    /\ API_KEY \in Keys
    /\ peso_kg \in 10..3000
    /\ altura_m \in 50..300
    /\ pc = "idle"
    /\ outcome = NoExchange
    /\ imc = Blank.imc
    /\ classification = Blank.classification
    /\ ret = Blank.ret
    /\ http = Blank.http
    /\ page = Blank.page
    /\ calls = Blank.calls

PressOnce ==
    /\ pc = "idle"
    /\ PressWith({[kind |-> "Timeout"]})

NextForm == PressOnce

SpecForm == InitForm /\ [][NextForm]_vars

---------------------------------------------------------------------------
(* classify_bmi on its own: the argument is drawn, the function applied.   *)

\* the literals of classify_bmi, in units of 0.00001
Thresholds == {1850000, 2490000, 2500000, 2990000, 3000000, 3490000,
               3500000, 3990000}

\* every tenth from -1.0 to MaxBmi, and each literal with its two
\* neighbours at the fifth decimal (18.49999 among them), each as the
\* float of the decimal and as the floats just below and above it
BmiArgs ==
    { Float(u, off) :
        u \in { k * 10000 : k \in (-10)..(MaxBmi * 10) }
              \cup { t + d : t \in Thresholds, d \in {-1, 0, 1} },
        off \in {-1, 0, 1} }

InitClassify ==
    /\ API_KEY \in Keys
    /\ peso_kg = 700
    /\ altura_m = 175
    /\ pc = "classify"
    /\ outcome = NoExchange
    /\ imc \in BmiArgs
    /\ classification = Blank.classification
    /\ ret = Blank.ret
    /\ http = Blank.http
    /\ page = Blank.page
    /\ calls = Blank.calls

CallClassify ==
    /\ pc = "classify"
    /\ pc' = "classified"
    /\ classification' = classify_bmi(imc)
    /\ calls' = [calls EXCEPT !.classify_bmi = 1]
    /\ UNCHANGED <<API_KEY, peso_kg, altura_m, imc, outcome, ret, http, page>>

NextClassify == CallClassify

SpecClassify == InitClassify /\ [][NextClassify]_vars

---------------------------------------------------------------------------
(* generate_tips on its own: the label, the credential and the outcome of  *)
(* the exchange are drawn, the function applied.                           *)

InitTips ==
    /\ API_KEY \in Keys
    /\ peso_kg = 700
    /\ altura_m = 175
    /\ pc = "tips"
    /\ outcome \in Outcomes
    /\ imc = Blank.imc
    /\ classification \in Labels
    /\ ret = Blank.ret
    /\ http = Blank.http
    /\ page = Blank.page
    /\ calls = Blank.calls

CallTips ==
    /\ pc = "tips"
    /\ pc' = "returned"
    /\ \E tips \in {generate_tips(classification, API_KEY, outcome)} :
         /\ ret' = tips.ret
         /\ http' = tips.http
         /\ page' = tips.page
    /\ calls' = [calls EXCEPT !.generate_tips = 1]
    /\ UNCHANGED <<API_KEY, peso_kg, altura_m, imc, classification, outcome>>

NextTips == CallTips

SpecTips == InitTips /\ [][NextTips]_vars

---------------------------------------------------------------------------
(* Properties.                                                             *)

\* an element of this kind and body is on the page
Shown(kind, body) == \E i \in DOMAIN page : page[i] = Element(kind, body)

\* some element of the page, of any kind, carries this text
Displayed(body) == \E i \in DOMAIN page : page[i].body = body

\* C1 (as claimed): with no credential configured, generate_tips returns,
\* for every label, the pair of the "não foi configurada" error string and
\* an empty citation list, and issues no HTTP request.
C1_MissingKeyReturnsPair ==
    (pc = "returned" /\ API_KEY = "") =>
        /\ http = <<>>
        /\ ret.py = "tuple"
        /\ ret.v = << <<MSG_NO_KEY>>, <<>> >>

\* C2 (as claimed): when the exchange succeeds and the parsed response has
\* an empty candidates array, generate_tips returns the fallback text and
\* an empty citation list, not a processing-error string.
C2_EmptyCandidatesFallback ==
    (/\ pc = "returned"
     /\ API_KEY # ""
     /\ outcome = [kind |-> "ok", json |-> [candidates |-> <<>>]]) =>
        ret = Tuple(<<MSG_FALLBACK>>, <<>>)

\* the band a BMI lies in when the bands are contiguous and delimited by
\* 18.5, 24.9, 29.9, 34.9 and 39.9 (Sobrepeso starting at 25.0)
Band(b) ==
    IF Lt(b, Lit(1850000)) THEN MAGREZA
    ELSE IF Lt(b, Lit(2490000)) THEN NORMAL
    ELSE IF Lt(b, Lit(2990000)) THEN SOBREPESO
    ELSE IF Lt(b, Lit(3490000)) THEN OBESIDADE_I
    ELSE IF Lt(b, Lit(3990000)) THEN OBESIDADE_II
    ELSE OBESIDADE_III

\* the documented gap [24.9, 25.0)
InDocumentedGap(b) == Le(Lit(2490000), b) /\ Lt(b, Lit(2500000))

\* C3 (as claimed): outside the gap [24.9, 25.0), classify_bmi returns the
\* label of the contiguous band the BMI lies in, Obesidade Grau III only
\* from 39.9 upward.
C3_ContiguousBands ==
    (pc = "classified" /\ ~InDocumentedGap(imc)) =>
        classification = Band(imc)

ExactLabel(peso, altura) ==
    LET n == peso * 10000
        d == altura * altura
    IN  CASE n < 185 * d -> MAGREZA
          [] 185 * d < n /\ n < 249 * d -> NORMAL
          [] 250 * d < n /\ n < 299 * d -> SOBREPESO
          [] 300 * d < n /\ n < 349 * d -> OBESIDADE_I
          [] 350 * d < n /\ n < 399 * d -> OBESIDADE_II
          [] 249 * d < n /\ n < 250 * d -> OBESIDADE_III
          [] 299 * d < n /\ n < 300 * d -> OBESIDADE_III
          [] 349 * d < n /\ n < 350 * d -> OBESIDADE_III
          [] 399 * d < n -> OBESIDADE_III
          [] OTHER -> Unset

\* C5: for a weight and height in the range of the input fields, a button
\* press computes BMI = weight / height^2 (to the hundredth: the quotient
\* of peso * 100000 by altura^2) and displays the label classify_bmi gives
\* for that BMI; 70.0 kg at 1.75 m is Normal, 120.0 kg at 1.60 m has BMI
\* 46.875 and is Obesidade Grau III.
C5_BmiAndLabel ==
    (pc = "pressed" /\ InRange(peso_kg, altura_m)) =>
        /\ imc.py = "float"
        /\ imc.u \div 1000 = (peso_kg * 100000) \div (altura_m * altura_m)
        /\ classification = classify_bmi(imc)
        /\ ExactLabel(peso_kg, altura_m) \in {classification, Unset}
        /\ \E i \in DOMAIN page :
              /\ page[i].el = "metric"
              /\ page[i].body[3] = classification
        /\ Shown("subheader", <<"Classificação: **", classification, "**">>)
        /\ (peso_kg = 700 /\ altura_m = 175) => classification = NORMAL
        /\ (peso_kg = 1200 /\ altura_m = 160) =>
              imc.u = 4687500 /\ classification = OBESIDADE_III

C5_Witness ==
    /\ pc = "pressed"
    /\ peso_kg = 1200
    /\ altura_m = 160
    /\ classification = OBESIDADE_III
    /\ Shown("subheader", <<"Classificação: **", OBESIDADE_III, "**">>)

\* C6: with the credential configured, a network-level failure of the
\* request (timeout, DNS or refused connection, non-2xx status) makes
\* generate_tips return the connection-error string with its cause and an
\* empty citation list; one request was issued and nothing is raised.
C6_NetworkFailure ==
    (/\ pc = "returned"
     /\ API_KEY # ""
     /\ outcome.kind \in NetworkFailures) =>
        /\ ret = Tuple(<<MSG_CONNECTION, outcome.kind>>, <<>>)
        /\ Len(http) = 1

C6_Witness ==
    /\ pc = "returned"
    /\ API_KEY # ""
    /\ outcome.kind = "HTTPError"
    /\ ret = Tuple(<<MSG_CONNECTION, "HTTPError">>, <<>>)

\* C7 (as claimed): with no credential, a button press with valid weight
\* and height shows the BMI and the classification and then displays the
\* missing-credential message returned by generate_tips.
C7_MissingKeyDisplayed ==
    (pc = "pressed" /\ API_KEY = "" /\ ValidInput(peso_kg, altura_m)) =>
        /\ Shown("subheader", <<"Classificação: **", classification, "**">>)
        /\ Displayed(<<MSG_NO_KEY>>)

\* C8: on a button press with a non-positive weight or height the handler
\* shows the validation error and nothing else: no BMI is computed,
\* classify_bmi and generate_tips are not called, no request is issued.
C8_InvalidInput ==
    (pc = "pressed" /\ (peso_kg <= 0 \/ altura_m <= 0)) =>
        /\ page = << Element("error", <<MSG_INVALID>>) >>
        /\ calls = NoCalls
        /\ imc = None
        /\ classification = Unset
        /\ ret = None
        /\ http = <<>>

C8_Witness ==
    /\ pc = "pressed"
    /\ peso_kg = 0
    /\ altura_m > 0
    /\ page = << Element("error", <<MSG_INVALID>>) >>

\* C9: a button press issues at most one HTTP request whatever the outcome
\* of the request; the number issued is decided by the inputs and the
\* credential of that press alone (one for valid inputs with a credential,
\* none otherwise), and the credential never changes.
C9_OneRequestPerPress ==
    pc = "pressed" =>
        /\ Len(http) <= 1
        /\ calls.generate_tips <= 1
        /\ Len(http) =
              IF ValidInput(peso_kg, altura_m) /\ API_KEY # "" THEN 1 ELSE 0
        /\ \A i \in DOMAIN http : http[i] = Post(classification, API_KEY)

C9_Witness ==
    /\ pc = "pressed"
    /\ outcome.kind = "Timeout"
    /\ Len(http) = 1

\* one citation per attribution with a web entry and a non-empty uri, in
\* the order of the array
RECURSIVE Cited(_)
Cited(attrs) ==
    IF attrs = <<>> THEN <<>>
    ELSE LET a == Head(attrs)
         IN  (IF /\ "web" \in DOMAIN a
                 /\ "uri" \in DOMAIN a.web
                 /\ a.web.uri # ""
              THEN << << "[",
                         IF "title" \in DOMAIN a.web THEN a.web.title
                         ELSE "None",
                         "](", a.web.uri, ")" >> >>
              ELSE <<>>)
             \o Cited(Tail(attrs))

\* the first candidate of the response of the run, if there is one
HasCandidate ==
    /\ outcome.kind = "ok"
    /\ "candidates" \in DOMAIN outcome.json
    /\ outcome.json.candidates # <<>>

\* C10 (as claimed): on a successful response whose first candidate
\* carries groundingMetadata.groundingAttributions, generate_tips returns
\* one citation per attribution with a web entry and a non-empty uri, in
\* order, built from title and uri; with no grounding metadata the list is
\* empty.
C10_Citations ==
    (pc = "returned" /\ API_KEY # "" /\ HasCandidate) =>
        LET candidate == outcome.json.candidates[1]
        IN  /\ ret.py = "tuple"
            /\ ret.v[2] =
                 IF /\ "groundingMetadata" \in DOMAIN candidate
                    /\ "groundingAttributions"
                          \in DOMAIN candidate.groundingMetadata
                 THEN Cited(candidate.groundingMetadata.groundingAttributions)
                 ELSE <<>>

====
